---- MODULE Spec2Model ----
(***************************************************************************)
(* Model of the ipasir-rs crate: the typed IPASIR contract                 *)
(* (src/src/interface.rs), the native solver handle and its callback       *)
(* trampolines (src/src/ffi/solver.rs), the native contract the handle     *)
(* talks to (src/src/ipasir.rs) and the in-process reference backend       *)
(* TestSolver (src/src/tests.rs).                                          *)
(*                                                                         *)
(* Spec       : one native Solver handle driven through its whole life.    *)
(* TestSpec   : one TestSolver driven through the same trait operations.   *)
(* LitSpec    : literals built by the constructors, read and passed to val.*)
(* ClauseSpec : a Clause view and the iterator over its literals.          *)
(* ThreadSpec : one Solver handle moved and borrowed between threads.      *)
(***************************************************************************)
EXTENDS Integers, Sequences, FiniteSets, TLC

(* ------------------------------ bounds --------------------------------- *)
\* width of the model's c_int (the real one is 32 bits wide)
CIntBits == 6
\* longest clause handed to add_clause / exported by the native side
MaxLen == 2
\* most clauses added to one solver
MaxClauses == 2
\* most assumptions pending at once
MaxAssume == 1
\* most terminate polls the native side makes in one solve
MaxPolls == 2
\* number of array cells past the 0 terminator that the learn scan can read
\* before the read faults
MaxOverrun == 2
\* heap cells available for callback boxes
NumAddrs == 3
\* threads that can hold the Solver handle or a reference to it
NumThreads == 3

(* ------------------------------ c_int ---------------------------------- *)
RECURSIVE Pow2(_)
Pow2(n) == IF n = 0 THEN 1 ELSE 2 * Pow2(n - 1)

IntMin == -Pow2(CIntBits - 1)
IntMax == Pow2(CIntBits - 1) - 1

CInt == IntMin..IntMax

\* -x on a c_int, as a release build computes it (two's complement)
WrapNeg(x) == IF x = IntMin THEN IntMin ELSE -x

\* Lit::try_from
TryFrom_positive(val) ==
    IF val <= 0
    THEN [ok |-> FALSE, err |-> val]
    ELSE [ok |-> TRUE, lit |-> val]
TryFrom_zero_only(val) ==
    IF val = 0
    THEN [ok |-> FALSE, err |-> val]
    ELSE [ok |-> TRUE, lit |-> val]
TryFrom(val) ==
    IF val = 0 \/ val = IntMin
    THEN [ok |-> FALSE, err |-> val]
    ELSE [ok |-> TRUE, lit |-> val]

\* the literals the solvers are driven with: both polarities of one variable
Lits == {v \in {-1, 0, 1} : TryFrom(v).ok}

\* the values a native library is tried with as the return value of a call
RawSamples == {-1, 0, 1, 10, 20, 30, IntMin}

\* the usize values set_learn is tried with: small ones, and the smallest
\* usize that is larger than every c_int
MaxLens == {0, 1, 2, IntMax + 1}

\* the clauses the reference backend is driven with: the empty clause, unit
\* clauses, both orders of two literals, a repeated literal, a longer clause
ClauseSamples ==
    {<<>>, <<1>>, <<-1>>, <<1, -1>>, <<-1, 1>>, <<1, 1>>, <<1, 2, 3>>}

\* literal sequences of length at most n
SeqsUpTo(S, n) == UNION {[1..k -> S] : k \in 0..n}

(* ------------------------------ results -------------------------------- *)
NoErr == [kind |-> "", tag |-> "", code |-> 0]
Ok(v) == [ok |-> TRUE, val |-> v, err |-> NoErr]
\* impl From<InvalidLitVal> for SolverError
FromInvalidLitVal(v) ==
    [ok |-> FALSE, val |-> "",
     err |-> [kind |-> "Lit", tag |-> "InvalidLitVal", code |-> v]]
\* impl From<ResponseError> for SolverError
FromResponseError(tag, v) ==
    [ok |-> FALSE, val |-> "",
     err |-> [kind |-> "Response", tag |-> tag, code |-> v]]
\* SolverErrorKind::InvalidSolverState
InvalidSolverState ==
    [ok |-> FALSE, val |-> "",
     err |-> [kind |-> "InvalidSolverState", tag |-> "", code |-> 0]]

SolveControl == {"Continue", "Stop"}

VARIABLES
    pc,             \* where the thread that owns the Solver is
    terminate_cb,   \* Solver.terminate_cb
    learn_cb,       \* Solver.learn_cb
    heap,           \* addresses of the callback boxes that are allocated
    native,         \* the native solver behind Solver.ptr
    scan,           \* the activation of the learn trampoline
    last,           \* the trait operation in progress or last returned
    want_terminate, \* TestSolver: the callback last passed to set_terminate
    state,          \* TestSolver.state
    clauses,        \* TestSolver.clauses
    assumptions,    \* TestSolver.assumptions
    literal,        \* the literal being constructed and queried
    view,           \* a Clause and the LitIter made from it
    handle          \* which threads own, borrow and call the Solver handle

ffi_vars == <<pc, terminate_cb, learn_cb, heap, native, scan>>
test_vars == <<want_terminate, state, clauses, assumptions>>
pure_vars == <<literal, view, handle>>
vars == <<pc, terminate_cb, learn_cb, heap, native, scan, last,
          want_terminate, state, clauses, assumptions, literal, view,
          handle>>

None == [some |-> FALSE, addr |-> 0, f |-> "none"]
NULL == 0
Addrs == 1..NumAddrs
NoScan == [active |-> FALSE, mem |-> <<>>, n |-> 0, count_lits |-> 0,
           invoked |-> <<>>]

\* an operation that has been entered, and the same operation returning
Entered(op, args) ==
    [op |-> op, args |-> args, done |-> FALSE, raw |-> 0, res |-> Ok("unit"),
     calls |-> <<>>, polls |-> <<>>]
Returning(call, raw, res, made) ==
    [call EXCEPT !.done = TRUE, !.raw = raw, !.res = res, !.calls = @ \o made]
NativeCall(f, a) == [f |-> f, arg |-> a]

\* no literal has been constructed yet
NotNegated == [evaluated |-> FALSE, exact |-> 0]
NoLit == [ctor |-> "none", input |-> 0, res |-> [ok |-> FALSE, err |-> 0],
          op |-> "none", raw |-> 0, var |-> 0, sign |-> "",
          native |-> 0, neg |-> NotNegated, val |-> Ok("unit")]

(* ------------------------------ Clause --------------------------------- *)
\* Option<Lit>
Some(l) == [some |-> TRUE, lit |-> l]
NoItem == [some |-> FALSE, lit |-> 0]

\* impl From<&[Lit]> for Clause
Clause_from(lits) == [lits |-> lits]

\* Clause::len
Clause_len(c) == Len(c.lits)

\* Clause::is_empty
Clause_is_empty(c) == Len(c.lits) = 0

\* Clause::iter: an iterator over the whole slice; lits[lo + 1 .. hi] is
\* what it has not yielded
Clause_iter(c) == [lits |-> c.lits, lo |-> 0, hi |-> Len(c.lits)]

\* ExactSizeIterator::len for LitIter
LitIter_len(it) == it.hi - it.lo

\* Iterator::next for LitIter
LitIter_next(it) ==
    IF it.lo = it.hi
    THEN [item |-> NoItem, it |-> it]
    ELSE [item |-> Some(it.lits[it.lo + 1]), it |-> [it EXCEPT !.lo = @ + 1]]

\* DoubleEndedIterator::next_back for LitIter
LitIter_next_back_front(it) ==
    IF it.lo = it.hi
    THEN [item |-> NoItem, it |-> it]
    ELSE [item |-> Some(it.lits[it.lo + 1]), it |-> [it EXCEPT !.hi = @ - 1]]
LitIter_next_back(it) ==
    IF it.lo = it.hi
    THEN [item |-> NoItem, it |-> it]
    ELSE [item |-> Some(it.lits[it.hi]), it |-> [it EXCEPT !.hi = @ - 1]]

\* a Clause over lits, no iterator made from it yet
Viewing(lits) ==
    [clause |-> Clause_from(lits), op |-> "from", len |-> 0, empty |-> FALSE,
     has_it |-> FALSE, it |-> Clause_iter(Clause_from(<<>>)),
     fwd |-> <<>>, bwd |-> <<>>, ended |-> FALSE, item |-> NoItem,
     remaining |-> 0]

(* ------------------------------ threads -------------------------------- *)
Threads == 1..NumThreads

\* the operations that take the handle by `&mut self`
MutOps == {"add_clause", "assume", "solve", "val", "failed", "set_terminate",
           "set_learn"}

\* thread 1 has made the Solver; nobody borrows it, nobody is in a call
Owned ==
    [alive |-> TRUE, owner |-> 1, shared |-> {}, excl |-> 0,
     in_call |-> [t \in Threads |-> "none"]]

(* ------------------------ the native contract -------------------------- *)
\* every native call on a released pointer is remembered
Touch(n) == [n EXCEPT !.use_after_release = @ \/ n.released > 0]

ipasir_init ==
    [released |-> 0, use_after_release |-> FALSE,
     open |-> <<>>, nclauses |-> 0, assumptions |-> <<>>,
     state |-> "INPUT",
     terminate |-> NULL, learn |-> NULL, max_length |-> 0, stop |-> FALSE]

\* the released solver no longer holds the registered pointers
ipasir_release(n) ==
    [Touch(n) EXCEPT !.released = @ + 1, !.terminate = NULL, !.learn = NULL]

\* a literal goes into the clause being added, 0 closes that clause
ipasir_add(n, lit_or_zero) ==
    IF lit_or_zero # 0
    THEN [Touch(n) EXCEPT !.open = Append(@, lit_or_zero), !.state = "INPUT"]
    ELSE [Touch(n) EXCEPT !.nclauses = @ + 1, !.open = <<>>, !.state = "INPUT"]

ipasir_assume(n, lit) ==
    [Touch(n) EXCEPT !.assumptions = Append(@, lit), !.state = "INPUT"]

\* the native solver after ipasir_solve returned r: the assumptions are
\* cleared, the state follows r
ipasir_solve(n, r) ==
    [Touch(n) EXCEPT !.assumptions = <<>>, !.stop = FALSE,
                     !.state = IF r = 10 THEN "SAT"
                               ELSE IF r = 20 THEN "UNSAT" ELSE "INPUT"]

ipasir_set_terminate(n, st) == [Touch(n) EXCEPT !.terminate = st]

ipasir_set_learn(n, st, max_length) ==
    [Touch(n) EXCEPT !.learn = st, !.max_length = max_length]

(* --------------------------- ffi::Solver ------------------------------- *)
\* Box::new: the new box is allocated while the old one is still alive
Alloc == CHOOSE a \in Addrs \ heap : \A b \in Addrs \ heap : a <= b

Boxes(cb) == IF cb.some THEN {cb.addr} ELSE {}

\* Solver::init
InitFfi ==
    /\ pc = "idle"
    /\ terminate_cb = None
    /\ learn_cb = None
    /\ heap = {}
    /\ native = ipasir_init
    /\ scan = NoScan

\* TestSolver::init, TestSolver::default
InitTest_sat ==
    /\ state = "Sat"
    /\ clauses = <<>>
    /\ assumptions = <<>>
    /\ want_terminate = "none"
InitTest ==
    /\ state = "Input"
    /\ clauses = <<>>
    /\ assumptions = <<>>
    /\ want_terminate = "none"

Init ==
    /\ InitFfi
    /\ InitTest
    /\ last = Returning(Entered("init", <<>>), 0, Ok("unit"), <<>>)
    /\ literal = NoLit
    /\ view = Viewing(<<>>)
    /\ handle = Owned

\* the arguments of the ipasir_add calls Solver::add_clause makes, in order:
\* every literal of the iterator, then the 0
add_clause_args_unterminated(lits) == lits
add_clause_args(lits) == lits \o <<0>>

\* the native solver after a run of ipasir_add calls
RECURSIVE AddAll(_, _)
AddAll(n, as) ==
    IF as = <<>> THEN n
    ELSE AddAll(ipasir_add(n, Head(as)), Tail(as))

AddCalls(as) == [i \in 1..Len(as) |-> NativeCall("ipasir_add", as[i])]

\* Solver::add_clause
AddClause(lits) ==
    /\ pc = "idle"
    /\ native.nclauses < MaxClauses
    /\ native' = AddAll(native, add_clause_args(lits))
    /\ last' = Returning(Entered("add_clause", lits), 0, Ok("unit"),
                         AddCalls(add_clause_args(lits)))
    /\ UNCHANGED <<pc, terminate_cb, learn_cb, heap, scan>>
    /\ UNCHANGED test_vars
    /\ UNCHANGED pure_vars

\* Solver::assume
Assume(lit) ==
    /\ pc = "idle"
    /\ Len(native.assumptions) < MaxAssume
    /\ native' = ipasir_assume(native, lit)
    /\ last' = Returning(Entered("assume", <<lit>>), 0, Ok("unit"),
                         <<NativeCall("ipasir_assume", lit)>>)
    /\ UNCHANGED <<pc, terminate_cb, learn_cb, heap, scan>>
    /\ UNCHANGED test_vars
    /\ UNCHANGED pure_vars

\* Solver::solve, the translation of the raw response
Solver_solve_swapped(raw) ==
    IF raw = 0 THEN Ok("Interrupted")
    ELSE IF raw = 10 THEN Ok("Unsat")
    ELSE IF raw = 20 THEN Ok("Sat")
    ELSE FromResponseError("Solve", raw)
Solver_solve(raw) ==
    IF raw = 0 THEN Ok("Interrupted")
    ELSE IF raw = 10 THEN Ok("Sat")
    ELSE IF raw = 20 THEN Ok("Unsat")
    ELSE FromResponseError("Solve", raw)

\* Solver::solve enters ipasir_solve
SolveCall ==
    /\ pc = "idle"
    /\ pc' = "solve"
    /\ native' = [Touch(native) EXCEPT !.stop = FALSE]
    /\ last' = [Entered("solve", <<>>) EXCEPT
                   !.calls = <<NativeCall("ipasir_solve", 0)>>]
    /\ UNCHANGED <<terminate_cb, learn_cb, heap, scan>>
    /\ UNCHANGED test_vars
    /\ UNCHANGED pure_vars

\* ipasir_set_terminate_callback: what one call with state pointer st does.
\* A pointer to a freed box is a dangling reference: anything may be called.
ipasir_set_terminate_callback_flipped(st) ==
    IF terminate_cb.some /\ terminate_cb.addr = st /\ st \in heap
    THEN {[state |-> st, cb |-> terminate_cb.f,
           ret |-> IF terminate_cb.f = "Continue" THEN 1 ELSE 0]}
    ELSE {[state |-> st, cb |-> "dangling", ret |-> r] : r \in {0, 1}}
ipasir_set_terminate_callback(st) ==
    IF terminate_cb.some /\ terminate_cb.addr = st /\ st \in heap
    THEN {[state |-> st, cb |-> terminate_cb.f,
           ret |-> IF terminate_cb.f = "Continue" THEN 0 ELSE 1]}
    ELSE {[state |-> st, cb |-> "dangling", ret |-> r] : r \in {0, 1}}

\* the native search polls the registered terminate function
NativePoll ==
    /\ pc = "solve"
    /\ native.terminate # NULL
    /\ ~native.stop
    /\ Len(last.polls) < MaxPolls
    /\ \E p \in ipasir_set_terminate_callback(native.terminate) :
          /\ last' = [last EXCEPT !.polls = Append(@, p)]
          /\ native' = [native EXCEPT !.stop = (p.ret # 0)]
    /\ UNCHANGED <<pc, terminate_cb, learn_cb, heap, scan>>
    /\ UNCHANGED test_vars
    /\ UNCHANGED pure_vars

\* ipasir_solve returns raw; a search that was told to stop returns 0
SolveReturn(raw) ==
    /\ pc = "solve"
    /\ native.stop => raw = 0
    /\ pc' = "idle"
    /\ native' = ipasir_solve(native, raw)
    /\ last' = Returning(last, raw, Solver_solve(raw), <<>>)
    /\ UNCHANGED <<terminate_cb, learn_cb, heap, scan>>
    /\ UNCHANGED test_vars
    /\ UNCHANGED pure_vars

\* the native search exports a learned clause: ipasir_set_learn_callback is
\* entered with a pointer to the clause's literals followed by 0
NativeLearn(c) ==
    /\ pc = "solve"
    /\ native.learn # NULL
    /\ Len(c) <= native.max_length
    /\ pc' = "learn"
    /\ scan' = [active |-> TRUE, mem |-> c \o <<0>>, n |-> 0, count_lits |-> 0,
                invoked |-> <<>>]
    /\ UNCHANGED <<terminate_cb, learn_cb, heap, native, last>>
    /\ UNCHANGED test_vars
    /\ UNCHANGED pure_vars

\* what *learnt_clause.offset(n) can read: the array cell inside the array,
\* any value in the cells after the terminator
ReadAt(mem, n) ==
    IF n < Len(mem) THEN {mem[n + 1]} ELSE {0, 1}

\* ipasir_set_learn_callback: one iteration of `for n in 0..`, a loop
\* without an exit
LearnScan ==
    /\ pc = "learn"
    /\ scan.n < Len(scan.mem) + MaxOverrun
    /\ \E v \in ReadAt(scan.mem, scan.n) :
          scan' = [scan EXCEPT !.n = @ + 1,
                               !.count_lits = IF v # 0 THEN @ + 1 ELSE @]
    /\ UNCHANGED <<pc, terminate_cb, learn_cb, heap, native, last>>
    /\ UNCHANGED test_vars
    /\ UNCHANGED pure_vars

\* a read past the terminator leaves the mapped memory: the process dies
LearnFault ==
    /\ pc = "learn"
    /\ scan.n >= Len(scan.mem)
    /\ pc' = "crashed"
    /\ UNCHANGED <<terminate_cb, learn_cb, heap, native, scan, last>>
    /\ UNCHANGED test_vars
    /\ UNCHANGED pure_vars

\* Solver::val, the translation of the raw response
Solver_val(lit, raw) ==
    IF raw = 0 THEN Ok("DontCare")
    ELSE IF raw = lit THEN Ok("True")
    ELSE IF raw = WrapNeg(lit) THEN Ok("False")
    ELSE FromInvalidLitVal(raw)

\* Solver::val
Val(lit, raw) ==
    /\ pc = "idle"
    /\ native' = Touch(native)
    /\ last' = Returning(Entered("val", <<lit>>), raw, Solver_val(lit, raw),
                         <<NativeCall("ipasir_val", lit)>>)
    /\ UNCHANGED <<pc, terminate_cb, learn_cb, heap, scan>>
    /\ UNCHANGED test_vars
    /\ UNCHANGED pure_vars

\* Solver::failed, the translation of the raw response
Solver_failed(lit, raw) ==
    IF raw = 0 THEN Ok("true")
    ELSE IF raw = 1 THEN Ok("false")
    ELSE FromResponseError("Failed", raw)

\* Solver::failed
Failed(lit, raw) ==
    /\ pc = "idle"
    /\ native' = Touch(native)
    /\ last' = Returning(Entered("failed", <<lit>>), raw, Solver_failed(lit, raw),
                         <<NativeCall("ipasir_failed", lit)>>)
    /\ UNCHANGED <<pc, terminate_cb, learn_cb, heap, scan>>
    /\ UNCHANGED test_vars
    /\ UNCHANGED pure_vars

\* Solver::set_terminate, the assignment to self.terminate_cb: the new box is
\* built, then the old value of the field is dropped
SetTerminateStore(f) ==
    /\ pc = "idle"
    /\ pc' = "set_terminate"
    /\ terminate_cb' = [some |-> TRUE, addr |-> Alloc, f |-> f]
    /\ heap' = (heap \cup {Alloc}) \ Boxes(terminate_cb)
    /\ last' = Entered("set_terminate", <<>>)
    /\ UNCHANGED <<learn_cb, native, scan>>
    /\ UNCHANGED test_vars
    /\ UNCHANGED pure_vars

\* Solver::set_terminate, the call of ipasir_set_terminate
SetTerminateRegister_once ==
    /\ pc = "set_terminate"
    /\ pc' = "idle"
    /\ native' = IF native.terminate = NULL
                 THEN ipasir_set_terminate(native, terminate_cb.addr)
                 ELSE Touch(native)
    /\ last' = Returning(last, 0, Ok("unit"),
                  IF native.terminate = NULL
                  THEN <<NativeCall("ipasir_set_terminate", terminate_cb.addr)>>
                  ELSE <<>>)
    /\ UNCHANGED <<terminate_cb, learn_cb, heap, scan>>
    /\ UNCHANGED test_vars
    /\ UNCHANGED pure_vars
SetTerminateRegister ==
    /\ pc = "set_terminate"
    /\ pc' = "idle"
    /\ native' = ipasir_set_terminate(native, terminate_cb.addr)
    /\ last' = Returning(last, 0, Ok("unit"),
                  <<NativeCall("ipasir_set_terminate", terminate_cb.addr)>>)
    /\ UNCHANGED <<terminate_cb, learn_cb, heap, scan>>
    /\ UNCHANGED test_vars
    /\ UNCHANGED pure_vars

\* max_len as c_int: the low CIntBits bits, read as a signed number
AsCInt(x) ==
    LET m == x % Pow2(CIntBits)
    IN  IF m > IntMax THEN m - Pow2(CIntBits) ELSE m

\* Solver::set_learn, the assignment to self.learn_cb
SetLearnStore(max_len) ==
    /\ pc = "idle"
    /\ pc' = "set_learn"
    /\ learn_cb' = [some |-> TRUE, addr |-> Alloc, f |-> "learn"]
    /\ heap' = (heap \cup {Alloc}) \ Boxes(learn_cb)
    /\ last' = Entered("set_learn", <<max_len>>)
    /\ UNCHANGED <<terminate_cb, native, scan>>
    /\ UNCHANGED test_vars
    /\ UNCHANGED pure_vars

\* Solver::set_learn, the call of ipasir_set_learn
SetLearnRegister ==
    /\ pc = "set_learn"
    /\ pc' = "idle"
    /\ native' = ipasir_set_learn(native, learn_cb.addr, AsCInt(last.args[1]))
    /\ last' = Returning(last, 0, Ok("unit"),
                  <<NativeCall("ipasir_set_learn", learn_cb.addr)>>)
    /\ UNCHANGED <<terminate_cb, learn_cb, heap, scan>>
    /\ UNCHANGED test_vars
    /\ UNCHANGED pure_vars

\* Drop::drop: the native solver after the body of drop()
drop_twice(n) == ipasir_release(ipasir_release(n))
drop(n) == ipasir_release(n)

\* Drop for Solver: the body of drop(), which releases the native solver
DropRelease ==
    /\ pc = "idle"
    /\ pc' = "drop"
    /\ native' = drop(native)
    /\ last' = Returning(Entered("drop", <<>>), 0, Ok("unit"),
                  [i \in 1..(native'.released - native.released) |->
                      NativeCall("ipasir_release", 0)])
    /\ UNCHANGED <<terminate_cb, learn_cb, heap, scan>>
    /\ UNCHANGED test_vars
    /\ UNCHANGED pure_vars

\* Drop for Solver: after drop() the fields are dropped, freeing the boxes
DropFields ==
    /\ pc = "drop"
    /\ pc' = "dropped"
    /\ terminate_cb' = None
    /\ learn_cb' = None
    /\ heap' = heap \ (Boxes(terminate_cb) \cup Boxes(learn_cb))
    /\ UNCHANGED <<native, scan, last>>
    /\ UNCHANGED test_vars
    /\ UNCHANGED pure_vars

Next ==
    \/ \E lits \in SeqsUpTo(Lits, MaxLen) : AddClause(lits)
    \/ \E lit \in Lits : Assume(lit)
    \/ SolveCall
    \/ NativePoll
    \/ \E c \in SeqsUpTo(Lits, MaxLen) : NativeLearn(c)
    \/ LearnScan
    \/ LearnFault
    \/ \E raw \in RawSamples : SolveReturn(raw)
    \/ \E lit \in Lits, raw \in RawSamples : Val(lit, raw)
    \/ \E lit \in Lits, raw \in RawSamples : Failed(lit, raw)
    \/ \E f \in SolveControl : SetTerminateStore(f)
    \/ SetTerminateRegister
    \/ \E max_len \in MaxLens : SetLearnStore(max_len)
    \/ SetLearnRegister
    \/ DropRelease
    \/ DropFields

Spec == Init /\ [][Next]_vars

(* ---------------------------- TestSolver ------------------------------- *)
\* TestSolver::add_clause
TestAddClause_front(lits) ==
    /\ Len(clauses) < MaxClauses
    /\ clauses' = <<lits>> \o clauses
    /\ last' = Returning(Entered("add_clause", lits), 0, Ok("unit"), <<>>)
    /\ UNCHANGED <<want_terminate, state, assumptions>>
    /\ UNCHANGED ffi_vars
    /\ UNCHANGED pure_vars
TestAddClause(lits) ==
    /\ Len(clauses) < MaxClauses
    /\ clauses' = Append(clauses, lits)
    /\ last' = Returning(Entered("add_clause", lits), 0, Ok("unit"), <<>>)
    /\ UNCHANGED <<want_terminate, state, assumptions>>
    /\ UNCHANGED ffi_vars
    /\ UNCHANGED pure_vars

\* TestSolver::assume
TestAssume(lit) ==
    /\ Len(assumptions) < MaxAssume
    /\ assumptions' = Append(assumptions, lit)
    /\ last' = Returning(Entered("assume", <<lit>>), 0, Ok("unit"), <<>>)
    /\ UNCHANGED <<want_terminate, state, clauses>>
    /\ UNCHANGED ffi_vars
    /\ UNCHANGED pure_vars

\* TestSolver::solve
TestSolve_unsat ==
    /\ state' = "Unsat"
    /\ last' = Returning(Entered("solve", <<>>), 0, Ok("Unsat"), <<>>)
    /\ UNCHANGED <<want_terminate, clauses, assumptions>>
    /\ UNCHANGED ffi_vars
    /\ UNCHANGED pure_vars
TestSolve_reset ==
    /\ state' = "Sat"
    /\ clauses' = <<>>
    /\ last' = Returning(Entered("solve", <<>>), 0, Ok("Sat"), <<>>)
    /\ UNCHANGED <<want_terminate, assumptions>>
    /\ UNCHANGED ffi_vars
    /\ UNCHANGED pure_vars
TestSolve ==
    /\ state' = "Sat"
    /\ last' = Returning(Entered("solve", <<>>), 0, Ok("Sat"), <<>>)
    /\ UNCHANGED <<want_terminate, clauses, assumptions>>
    /\ UNCHANGED ffi_vars
    /\ UNCHANGED pure_vars

\* TestSolver::val
TestSolver_val(st, lit) == Ok("DontCare")

TestVal(lit) ==
    /\ last' = Returning(Entered("val", <<lit>>), 0, TestSolver_val(state, lit), <<>>)
    /\ UNCHANGED test_vars
    /\ UNCHANGED ffi_vars
    /\ UNCHANGED pure_vars

\* TestSolver::failed
TestSolver_failed(st, lit) == Ok("false")

TestFailed(lit) ==
    /\ last' = Returning(Entered("failed", <<lit>>), 0, TestSolver_failed(state, lit),
                         <<>>)
    /\ UNCHANGED test_vars
    /\ UNCHANGED ffi_vars
    /\ UNCHANGED pure_vars

\* TestSolver::set_terminate: the callback is dropped unused
TestSetTerminate_input(f) ==
    /\ want_terminate' = f
    /\ state' = "Input"
    /\ last' = Returning(Entered("set_terminate", <<>>), 0, Ok("unit"), <<>>)
    /\ UNCHANGED <<clauses, assumptions>>
    /\ UNCHANGED ffi_vars
    /\ UNCHANGED pure_vars
TestSetTerminate(f) ==
    /\ want_terminate' = f
    /\ last' = Returning(Entered("set_terminate", <<>>), 0, Ok("unit"), <<>>)
    /\ UNCHANGED <<state, clauses, assumptions>>
    /\ UNCHANGED ffi_vars
    /\ UNCHANGED pure_vars

\* TestSolver::set_learn: the callback is dropped unused
TestSetLearn(max_len) ==
    /\ last' = Returning(Entered("set_learn", <<max_len>>), 0, Ok("unit"), <<>>)
    /\ UNCHANGED test_vars
    /\ UNCHANGED ffi_vars
    /\ UNCHANGED pure_vars

TestNext ==
    \/ \E lits \in ClauseSamples : TestAddClause(lits)
    \/ \E lit \in Lits : TestAssume(lit)
    \/ TestSolve
    \/ \E lit \in Lits : TestVal(lit)
    \/ \E lit \in Lits : TestFailed(lit)
    \/ \E f \in SolveControl : TestSetTerminate(f)
    \/ \E max_len \in MaxLens : TestSetLearn(max_len)

TestSpec == Init /\ [][TestNext]_vars

(* ------------------------------ Lit ------------------------------------ *)
\* wrapper::Lit::new: only zero is refused, with Error::InvalidLitVal
Lit_new(var) ==
    IF var = 0
    THEN [ok |-> FALSE, err |-> "InvalidLitVal"]
    ELSE [ok |-> TRUE, lit |-> var]

\* Lit::to_raw: the c_int inside the literal
to_raw(l) == l

\* Lit::var: Var(self.to_raw().abs()), abs as a release build computes it
Lit_var_raw(l) == to_raw(l)
Lit_var(l) == IF to_raw(l) < 0 THEN WrapNeg(to_raw(l)) ELSE to_raw(l)

\* Lit::sign
Lit_sign(l) == IF to_raw(l) > 0 THEN "Pos" ELSE "Neg"

Constructed(ctor, v, res) ==
    [ctor |-> ctor, input |-> v, res |-> res, op |-> "new", raw |-> 0,
     var |-> 0, sign |-> "",
     native |-> 0, neg |-> NotNegated, val |-> Ok("unit")]

\* Lit::try_from(v)
LitTryFrom(v) ==
    /\ literal' = Constructed("try_from", v, TryFrom(v))
    /\ UNCHANGED <<ffi_vars, test_vars, last, view, handle>>

\* wrapper::Lit::new(v)
LitNew(v) ==
    /\ literal' = Constructed("new", v, Lit_new(v))
    /\ UNCHANGED <<ffi_vars, test_vars, last, view, handle>>

\* l.to_raw() on the literal that was constructed
LitToRaw ==
    /\ literal.res.ok
    /\ literal' = [literal EXCEPT !.op = "to_raw", !.raw = to_raw(literal.res.lit)]
    /\ UNCHANGED <<ffi_vars, test_vars, last, view, handle>>

\* l.var().to_raw() on a literal of the typed model
LitVar ==
    /\ literal.res.ok /\ literal.ctor = "try_from"
    /\ literal' = [literal EXCEPT !.op = "var", !.var = Lit_var(literal.res.lit)]
    /\ UNCHANGED <<ffi_vars, test_vars, last, view, handle>>

\* l.sign() on a literal of the typed model
LitSign ==
    /\ literal.res.ok /\ literal.ctor = "try_from"
    /\ literal' = [literal EXCEPT !.op = "sign", !.sign = Lit_sign(literal.res.lit)]
    /\ UNCHANGED <<ffi_vars, test_vars, last, view, handle>>

\* the negation in the third arm of the match in Solver::val: it is evaluated
\* only when the first two arms did not match
Negation(lit, raw) ==
    IF raw # 0 /\ raw # to_raw(lit)
    THEN [evaluated |-> TRUE, exact |-> -to_raw(lit)]
    ELSE NotNegated

\* a build with overflow checks stops at a negation that overflows
Panic ==
    [ok |-> FALSE, val |-> "",
     err |-> [kind |-> "panic", tag |-> "attempt to negate with overflow",
              code |-> 0]]

\* what val(lit) returns when ipasir_val returned raw: where the negation
\* overflows, the outcome depends on how the crate was built
ValOutcomes(lit, raw) ==
    IF Negation(lit, raw).evaluated /\ Negation(lit, raw).exact \notin CInt
    THEN {Panic, Solver_val(lit, raw)}
    ELSE {Solver_val(lit, raw)}

\* Solver::val on the literal that was constructed
LitVal(raw) ==
    /\ literal.res.ok
    /\ \E out \in ValOutcomes(literal.res.lit, raw) :
          literal' = [literal EXCEPT !.op = "val", !.native = raw,
                                     !.neg = Negation(literal.res.lit, raw),
                                     !.val = out]
    /\ UNCHANGED <<ffi_vars, test_vars, last, view, handle>>

LitNext ==
    \/ \E raw \in RawSamples : LitVal(raw)
    \/ \E v \in CInt : LitTryFrom(v)
    \/ \E v \in CInt : LitNew(v)
    \/ LitToRaw
    \/ LitVar
    \/ LitSign

LitSpec == Init /\ [][LitNext]_vars

(* ----------------------------- ClauseSpec ------------------------------ *)
\* Clause::from(lits)
ClauseFrom(lits) ==
    /\ view' = Viewing(lits)
    /\ UNCHANGED <<ffi_vars, test_vars, last, literal, handle>>

\* c.len()
ClauseLen ==
    /\ view' = [view EXCEPT !.op = "len", !.len = Clause_len(view.clause)]
    /\ UNCHANGED <<ffi_vars, test_vars, last, literal, handle>>

\* c.is_empty()
ClauseIsEmpty ==
    /\ view' = [view EXCEPT !.op = "is_empty",
                            !.empty = Clause_is_empty(view.clause)]
    /\ UNCHANGED <<ffi_vars, test_vars, last, literal, handle>>

\* c.iter(): a new iterator replaces the one in use
ClauseIter ==
    /\ view' = [view EXCEPT !.op = "iter", !.has_it = TRUE,
                            !.it = Clause_iter(view.clause),
                            !.fwd = <<>>, !.bwd = <<>>, !.ended = FALSE,
                            !.item = NoItem]
    /\ UNCHANGED <<ffi_vars, test_vars, last, literal, handle>>

\* it.next(): what it yields is appended to the literals taken from the front
IterNext ==
    /\ view.has_it
    /\ LET r == LitIter_next(view.it) IN
       view' = [view EXCEPT !.op = "next", !.it = r.it, !.item = r.item,
                            !.fwd = IF r.item.some THEN Append(@, r.item.lit)
                                    ELSE @,
                            !.ended = @ \/ ~r.item.some]
    /\ UNCHANGED <<ffi_vars, test_vars, last, literal, handle>>

\* it.next_back(): what it yields is appended to the literals taken from
\* the back
IterNextBack ==
    /\ view.has_it
    /\ LET r == LitIter_next_back(view.it) IN
       view' = [view EXCEPT !.op = "next_back", !.it = r.it, !.item = r.item,
                            !.bwd = IF r.item.some THEN Append(@, r.item.lit)
                                    ELSE @,
                            !.ended = @ \/ ~r.item.some]
    /\ UNCHANGED <<ffi_vars, test_vars, last, literal, handle>>

\* it.len()
IterLen ==
    /\ view.has_it
    /\ view' = [view EXCEPT !.op = "iter_len",
                            !.remaining = LitIter_len(view.it)]
    /\ UNCHANGED <<ffi_vars, test_vars, last, literal, handle>>

ClauseNext ==
    \/ \E lits \in ClauseSamples : ClauseFrom(lits)
    \/ ClauseLen
    \/ ClauseIsEmpty
    \/ ClauseIter
    \/ IterNext
    \/ IterNextBack
    \/ IterLen

ClauseSpec == Init /\ [][ClauseNext]_vars

(* ----------------------------- ThreadSpec ------------------------------ *)
Frame == <<ffi_vars, test_vars, last, literal, view>>

Idle(t) == handle.in_call[t] = "none"
Unborrowed == handle.shared = {} /\ handle.excl = 0

\* Send for Solver: the owner moves the handle to another thread; a value
\* that is borrowed cannot be moved
SendTo(t, u) ==
    /\ handle.alive /\ handle.owner = t /\ u # t
    /\ Unborrowed /\ Idle(t)
    /\ handle' = [handle EXCEPT !.owner = u]
    /\ UNCHANGED Frame

\* Sync for Solver: any thread may hold a `&Solver` while nobody holds a
\* `&mut Solver`
ShareRef(t) ==
    /\ handle.alive /\ handle.excl = 0
    /\ t \notin handle.shared
    /\ handle' = [handle EXCEPT !.shared = @ \cup {t}]
    /\ UNCHANGED Frame

\* a `&Solver` goes out of scope
DropRef(t) ==
    /\ t \in handle.shared /\ Idle(t)
    /\ handle' = [handle EXCEPT !.shared = @ \ {t}]
    /\ UNCHANGED Frame

\* a thread gets the `&mut Solver`, by owning the handle or through a lock or
\* a scope that lends it: no other borrow is outstanding
BorrowMut(t) ==
    /\ handle.alive /\ Unborrowed
    /\ handle' = [handle EXCEPT !.excl = t]
    /\ UNCHANGED Frame

\* the `&mut Solver` goes out of scope
ReturnMut(t) ==
    /\ handle.excl = t /\ Idle(t)
    /\ handle' = [handle EXCEPT !.excl = 0]
    /\ UNCHANGED Frame

\* a trait operation with receiver `&mut self` enters its native call
Call_shared(t, op) ==
    /\ handle.alive /\ (handle.excl = t \/ t \in handle.shared) /\ Idle(t)
    /\ handle' = [handle EXCEPT !.in_call[t] = op]
    /\ UNCHANGED Frame
Call(t, op) ==
    /\ handle.alive /\ handle.excl = t /\ Idle(t)
    /\ handle' = [handle EXCEPT !.in_call[t] = op]
    /\ UNCHANGED Frame

\* signature(&self): callable through any reference; ipasir_signature takes
\* no solver pointer
Signature(t) ==
    /\ handle.alive /\ (handle.excl = t \/ t \in handle.shared) /\ Idle(t)
    /\ handle' = [handle EXCEPT !.in_call[t] = "signature"]
    /\ UNCHANGED Frame

\* the native call returns
Return(t) ==
    /\ ~Idle(t)
    /\ handle' = [handle EXCEPT !.in_call[t] = "none"]
    /\ UNCHANGED Frame

\* Drop for Solver: the owner lets go of the handle, which nobody borrows,
\* and drop() enters ipasir_release
DropHandle(t) ==
    /\ handle.alive /\ handle.owner = t
    /\ Unborrowed /\ Idle(t)
    /\ handle' = [handle EXCEPT !.alive = FALSE, !.in_call[t] = "release"]
    /\ UNCHANGED Frame

ThreadNext ==
    \/ \E t, u \in Threads : SendTo(t, u)
    \/ \E t \in Threads : ShareRef(t)
    \/ \E t \in Threads : DropRef(t)
    \/ \E t \in Threads : BorrowMut(t)
    \/ \E t \in Threads : ReturnMut(t)
    \/ \E t \in Threads, op \in MutOps : Call(t, op)
    \/ \E t \in Threads : Signature(t)
    \/ \E t \in Threads : Return(t)
    \/ \E t \in Threads : DropHandle(t)

ThreadSpec == Init /\ [][ThreadNext]_vars

(* ------------------------------ claims --------------------------------- *)
Tri(res, kind, tag, code) ==
    ~res.ok /\ res.err = [kind |-> kind, tag |-> tag, code |-> code]

\* C1: whatever raw code ipasir_solve returns, Solver::solve returns
\* Ok(Interrupted) for 0, Ok(Sat) for 10, Ok(Unsat) for 20, and for every
\* other code the response error tagged Solve carrying that code.
C1_SolveResponse ==
    (last.op = "solve" /\ last.done) =>
        /\ last.raw = 0 => last.res = Ok("Interrupted")
        /\ last.raw = 10 => last.res = Ok("Sat")
        /\ last.raw = 20 => last.res = Ok("Unsat")
        /\ last.raw \notin {0, 10, 20} =>
              Tri(last.res, "Response", "Solve", last.raw)

\* a solve that returned a code outside {0, 10, 20} and was turned into an error
C1_Witness ==
    /\ last.op = "solve" /\ last.done
    /\ last.raw = 30
    /\ ~last.res.ok

\* C2: in state Unsatisfiable, failed(lit) is true exactly when ipasir_failed
\* returned 1, false exactly when it returned 0, and any other raw value is
\* the response error tagged Failed carrying that value.
C2_FailedMeaning ==
    (last.op = "failed" /\ last.done /\ native.state = "UNSAT") =>
        /\ last.raw = 1 => last.res = Ok("true")
        /\ last.raw = 0 => last.res = Ok("false")
        /\ last.raw \notin {0, 1} =>
              Tri(last.res, "Response", "Failed", last.raw)

\* C3: val(lit) returns DontCare for raw 0, True for raw lit, False for raw
\* -lit, and for every other raw value the response error tagged Val carrying
\* that value (not a literal-encoding error).
C3_ValResponse ==
    (last.op = "val" /\ last.done) =>
        LET lit == last.args[1] IN
        /\ last.raw = 0 => last.res = Ok("DontCare")
        /\ last.raw = lit => last.res = Ok("True")
        /\ last.raw = -lit => last.res = Ok("False")
        /\ last.raw \notin {0, lit, -lit} =>
              Tri(last.res, "Response", "Val", last.raw)

\* C4: on the state-tracking backend a query in the wrong state is rejected:
\* failed(lit) outside Unsat and val(lit) outside Sat return the
\* InvalidSolverState error.
C4_WrongStateRejected ==
    /\ (last.op = "failed" /\ last.done /\ state # "Unsat") =>
          last.res = InvalidSolverState
    /\ (last.op = "val" /\ last.done /\ state # "Sat") =>
          last.res = InvalidSolverState

\* C5: once a terminate callback that always returns Stop is registered,
\* every later solve() returns Interrupted and leaves the state Input.
C5_StopInterrupts ==
    (last.op = "solve" /\ last.done /\ want_terminate = "Stop") =>
        /\ last.res = Ok("Interrupted")
        /\ state = "Input"

\* the literals of the clause the learn trampoline was entered with
Learnt == SubSeq(scan.mem, 1, Len(scan.mem) - 1)

\* C6: each time the learn trampoline is entered with n literals and a 0, the
\* user's learn callback has been invoked exactly once, with exactly those n
\* literals in order, by the time the trampoline is past the terminator.
C6_LearnInvokedOnce ==
    (scan.active /\ (pc = "crashed" \/ scan.n >= Len(scan.mem))) =>
        scan.invoked = <<Learnt>>

\* C7: ipasir_release is called exactly once on the handle's pointer, by the
\* drop of the handle and not before, and no native call follows the release.
C7_ReleasedOnce ==
    /\ native.released <= 1
    /\ ~native.use_after_release
    /\ pc \in {"drop", "dropped"} <=> native.released = 1
    /\ native.released = 1 =>
          /\ last.op = "drop"
          /\ last.calls = <<NativeCall("ipasir_release", 0)>>

\* a handle that was used and has gone out of scope
C7_Witness ==
    /\ pc = "dropped"
    /\ native.released = 1
    /\ native.nclauses > 0
    /\ terminate_cb = None /\ heap = {}

\* C8: whenever the native side holds a state pointer registered through
\* set_terminate or set_learn, it points to the box the Solver owns now, and
\* that box is allocated.
C8_RegisteredPointersLive ==
    /\ native.terminate # NULL =>
          /\ native.terminate \in heap
          /\ terminate_cb.some /\ terminate_cb.addr = native.terminate
    /\ native.learn # NULL =>
          /\ native.learn \in heap
          /\ learn_cb.some /\ learn_cb.addr = native.learn

\* C9: add_clause with N literals makes exactly N+1 ipasir_add calls, the N
\* literals in order, each nonzero, then one 0; the call closes exactly one
\* clause on the native side and leaves no clause open.
C9_AddClauseCalls ==
    /\ [](  (last.op = "add_clause" /\ last.done) =>
              /\ Len(last.calls) = Len(last.args) + 1
              /\ \A i \in 1..Len(last.args) :
                    /\ last.calls[i] = NativeCall("ipasir_add", last.args[i])
                    /\ last.args[i] # 0
              /\ last.calls[Len(last.calls)] = NativeCall("ipasir_add", 0)
              /\ native.open = <<>>  )
    /\ [][ last'.op = "add_clause" =>
              /\ native'.nclauses = native.nclauses + 1
              /\ native.open = <<>> /\ native'.open = <<>> ]_vars

\* a two-literal clause was added and closed
C9_Witness ==
    /\ last.op = "add_clause" /\ last.done
    /\ last.args = <<1, -1>>
    /\ Len(last.calls) = 3
    /\ native.nclauses = 1 /\ native.open = <<>>

\* C10: when a solve() has returned, with any response, no assumption made
\* before it is still pending.
C10_AssumptionsCleared ==
    (last.op = "solve" /\ last.done) => assumptions = <<>>

\* C11: after add_clause or assume returns, whatever the state was before,
\* the solver state is Input.
C11_BackToInput ==
    (last.op \in {"add_clause", "assume"} /\ last.done) => state = "Input"

\* the literals stored as unit clauses
Units == {clauses[i][1] : i \in {j \in 1..Len(clauses) : Len(clauses[j]) = 1}}

\* C12: once solve() has returned Sat, val(l) is True for every literal l
\* that was added as a unit clause and False for its negation; so after
\* add_clause([1,2,3]), add_clause([-1]), solve(), val(1) is False.
C12_UnitForced ==
    (last.op = "val" /\ last.done /\ state = "Sat") =>
        /\ last.args[1] \in Units => last.res = Ok("True")
        /\ -last.args[1] \in Units => last.res = Ok("False")

\* C13: on the reference backend solve() returns Ok(Sat) from any state and
\* leaves the state Sat, and val(lit) in state Sat returns Ok and keeps the
\* state Sat.
C13_AlwaysSat ==
    /\ []( (last.op = "solve" /\ last.done) =>
              (last.res = Ok("Sat") /\ state = "Sat") )
    /\ [][ (last'.op = "val" /\ state = "Sat") =>
              (last'.res.ok /\ state' = "Sat") ]_vars

\* val was asked after a solve that followed an earlier solve
C13_Witness ==
    /\ last.op = "val" /\ last.done /\ last.res.ok
    /\ state = "Sat"
    /\ clauses # <<>>

\* C18: what init() returns is a solver in state Input with no stored
\* clauses and no pending assumptions, and a native handle with no
\* registered callbacks.
C18_FreshSolver ==
    (last.op = "init") =>
        /\ state = "Input" /\ clauses = <<>> /\ assumptions = <<>>
        /\ terminate_cb = None /\ learn_cb = None
        /\ native.state = "INPUT" /\ native.nclauses = 0
        /\ native.assumptions = <<>>
        /\ native.terminate = NULL /\ native.learn = NULL

\* the solver as init() returned it, before any operation
C18_Witness ==
    /\ last.op = "init" /\ last.done
    /\ state = "Input"
    /\ pc = "idle"

\* C19: each add_clause(lits) on the reference backend stores exactly one
\* more clause, after the ones already stored, and that last clause is lits:
\* same literals, same order, same multiplicity.
C19_ClauseStored ==
    /\ []( (last.op = "add_clause" /\ last.done) =>
              (clauses # <<>> /\ clauses[Len(clauses)] = last.args) )
    /\ [][ last'.op = "add_clause" =>
              (/\ Len(clauses') = Len(clauses) + 1
               /\ clauses'[Len(clauses')] = last'.args) ]_vars

\* a clause with a repeated literal stored after an earlier clause
C19_Witness ==
    /\ last.op = "add_clause" /\ last.done
    /\ Len(clauses) = 2
    /\ clauses[1] = <<1, -1>>
    /\ clauses[2] = <<1, 1>>

\* C20: no operation removes or alters a stored clause: every step keeps
\* the clauses stored so far, with the same literals at the same positions.
C20_ClausesPermanent ==
    [][ /\ Len(clauses') >= Len(clauses)
        /\ SubSeq(clauses', 1, Len(clauses)) = clauses ]_vars

\* two clauses are stored and solve, then a query, have run since
C20_Witness ==
    /\ clauses = <<<<1, 2, 3>>, <<-1>>>>
    /\ state = "Sat"
    /\ last.op = "failed"

\* C14: for every c_int v other than 0 and the minimum, Lit::try_from(v)
\* succeeds and to_raw() of the result is v.
C14_TryFromRoundTrip ==
    (literal.ctor = "try_from" /\ literal.input \notin {0, IntMin}) =>
        /\ literal.res.ok
        /\ literal.op = "to_raw" => literal.raw = literal.input

\* the most negative literal, built and read back
C14_Witness ==
    /\ literal.ctor = "try_from" /\ literal.op = "to_raw"
    /\ literal.input = IntMin + 1
    /\ literal.raw = IntMin + 1

\* C15: for v = 0 and for v = the minimum c_int, Lit::try_from(v) fails with
\* InvalidLitVal(v) and produces no literal.
C15_TryFromRejects ==
    (literal.ctor = "try_from" /\ literal.input \in {0, IntMin}) =>
        literal.res = [ok |-> FALSE, err |-> literal.input]

\* the minimum c_int was refused
C15_Witness ==
    /\ literal.ctor = "try_from"
    /\ literal.input = IntMin
    /\ ~literal.res.ok /\ literal.res.err = IntMin

\* C16: every literal a checked constructor produces (Lit::try_from, and
\* Lit::new of the FFI wrapper) is neither 0 nor the minimum c_int.
C16_CheckedLitsValid ==
    literal.res.ok => literal.res.lit \notin {0, IntMin}

Magnitude(x) == IF x < 0 THEN -x ELSE x

\* C17: for every literal l, l.var().to_raw() is |l.to_raw()| and positive,
\* l.sign() is Pos exactly when l.to_raw() > 0 and Neg exactly when it is
\* < 0, and neither call changes l.
C17_VarAndSign ==
    /\ []( /\ literal.op = "var" =>
                (literal.var = Magnitude(literal.res.lit) /\ literal.var > 0)
           /\ literal.op = "sign" =>
                (/\ literal.sign = "Pos" <=> literal.res.lit > 0
                 /\ literal.sign = "Neg" <=> literal.res.lit < 0) )
    /\ [][ literal'.op \in {"var", "sign"} =>
              (literal'.res = literal.res /\ literal'.input = literal.input) ]_vars

\* the variable and the sign of a negative literal
C17_Witness ==
    /\ literal.res.ok /\ literal.res.lit = -3
    /\ literal.op = "sign" /\ literal.sign = "Neg"
    /\ literal.var = 3

\* C21: only the newest callback of each kind is registered: every poll made
\* during a solve goes to the box and the function the Solver holds now, a
\* returned set_terminate / set_learn has handed exactly that box to the
\* native side, and the box of the callback it replaced is gone.
C21_NewestCallbackOnly ==
    /\ \A i \in 1..Len(last.polls) :
          /\ last.polls[i].state = terminate_cb.addr
          /\ last.polls[i].cb = terminate_cb.f
    /\ (last.op = "set_terminate" /\ last.done) =>
          /\ last.calls = <<NativeCall("ipasir_set_terminate", terminate_cb.addr)>>
          /\ native.terminate = terminate_cb.addr
    /\ (last.op = "set_learn" /\ last.done) =>
          /\ last.calls = <<NativeCall("ipasir_set_learn", learn_cb.addr)>>
          /\ native.learn = learn_cb.addr
    /\ pc \in {"idle", "solve", "learn"} =>
          /\ heap = Boxes(terminate_cb) \cup Boxes(learn_cb)
          /\ native.terminate \in Boxes(terminate_cb) \cup {NULL}
          /\ native.learn \in Boxes(learn_cb) \cup {NULL}

\* a solve polled the second terminate callback that was registered
C21_Witness ==
    /\ last.op = "solve" /\ last.polls # <<>>
    /\ ~learn_cb.some
    /\ terminate_cb.addr = 2
    /\ last.polls[1].state = 2

\* C22: a set_terminate or set_learn call, made in any state, leaves the
\* solver state, the stored clauses and the pending assumptions as they were,
\* on the reference backend and on the native side.
C22_CallbacksFrame ==
    [][ last'.op \in {"set_terminate", "set_learn"} =>
          /\ state' = state
          /\ clauses' = clauses
          /\ assumptions' = assumptions
          /\ native'.state = native.state
          /\ native'.nclauses = native.nclauses
          /\ native'.assumptions = native.assumptions ]_vars

\* set_terminate was called in state Sat with a clause and an assumption stored
C22_Witness ==
    /\ last.op = "set_terminate" /\ last.done
    /\ state = "Sat"
    /\ clauses # <<>>
    /\ assumptions # <<>>

\* C25: every poll of the terminate trampoline with the registered state
\* pointer is one invocation of the user's registered callback, and its
\* return value is 0 when the callback said Continue and 1 when it said Stop.
C25_TrampolineTranslates ==
    \A i \in 1..Len(last.polls) :
        LET p == last.polls[i] IN
        /\ p.cb \in SolveControl
        /\ p.cb = "Continue" => p.ret = 0
        /\ p.cb = "Stop" => p.ret = 1

\* a solve that was polled twice with Continue, and one that was told to stop
C25_Witness ==
    /\ last.op = "solve" /\ last.done
    /\ \/ /\ Len(last.polls) = 2
          /\ last.polls[2] = [state |-> native.terminate, cb |-> "Continue", ret |-> 0]
       \/ /\ Len(last.polls) = 1
          /\ last.polls[1] = [state |-> native.terminate, cb |-> "Stop", ret |-> 1]
          /\ last.raw = 0

\* C26: on a zero-terminated array the learn trampoline's scan stops at the
\* first 0: it never reads an element past the terminator, and once it has
\* read the terminator the length it has computed is the index of that 0 and
\* the scan is over.
C26_ScanStopsAtZero ==
    scan.active =>
        /\ scan.n <= Len(scan.mem)
        /\ scan.n = Len(scan.mem) =>
              /\ scan.count_lits = Len(scan.mem) - 1
              /\ pc # "learn"

\* C28: the max_length that set_learn hands to ipasir_set_learn is the
\* max_len the caller gave.
C28_MaxLenPreserved ==
    (last.op = "set_learn" /\ last.done /\ pc = "idle") =>
        native.max_length = last.args[1]

\* C27: whenever val(lit) evaluates -lit.to_raw(), the negation is a c_int:
\* it does not overflow for any literal a constructor hands out.
C27_NegationInRange ==
    (literal.op = "val" /\ literal.neg.evaluated) =>
        literal.neg.exact \in CInt

\* the literals an iterator has yielded, and those it has not
Yielded == Len(view.fwd) + Len(view.bwd)
Unyielded == Len(view.clause.lits) - Yielded

\* C24: for a Clause over s, len() is |s| and is_empty() says |s| = 0; what
\* next() has yielded is a prefix of s and what next_back() has yielded is a
\* suffix of s read backwards, the two never overlap, the iterator ends only
\* when every element was yielded and then yields nothing more, its len() is
\* the number of elements not yet yielded, and iter() starts over.
C24_ClauseIteration ==
    /\ [] LET s == view.clause.lits IN
          /\ view.op = "len" => view.len = Len(s)
          /\ view.op = "is_empty" => (view.empty <=> Len(s) = 0)
          /\ Yielded <= Len(s)
          /\ \A i \in 1..Len(view.fwd) : view.fwd[i] = s[i]
          /\ \A i \in 1..Len(view.bwd) : view.bwd[i] = s[Len(s) + 1 - i]
          /\ view.ended => Yielded = Len(s)
          /\ view.op = "iter_len" => view.remaining = Unyielded
    /\ [][ /\ view'.op \in {"next", "next_back"} =>
                (view'.item.some <=> Unyielded > 0)
           /\ view'.op = "iter" =>
                (view'.fwd = <<>> /\ view'.bwd = <<>> /\ ~view'.ended) ]_vars

\* a three-literal clause read from both ends until the iterator ended
C24_Witness ==
    /\ view.clause.lits = <<1, 2, 3>>
    /\ view.fwd = <<1>>
    /\ view.bwd = <<3, 2>>
    /\ view.ended

\* the threads that are inside a native call on the handle's pointer
InNative ==
    {t \in Threads : handle.in_call[t] \in MutOps \cup {"release"}}

\* C23: however the handle is sent to and shared between threads, at most one
\* thread at a time is inside add_clause, assume, solve, val, failed,
\* set_terminate, set_learn or the release on the handle's pointer.
C23_NoOverlappingCalls ==
    \A t, u \in InNative : t = u

\* the handle was sent to thread 2, which is inside solve, while thread 1
\* has nothing of it
C23_Witness ==
    /\ handle.owner = 2 /\ handle.excl = 2
    /\ handle.in_call[2] = "solve"
    /\ handle.in_call[1] = "none"
====
